---- MODULE Spec2Model ----
(***************************************************************************)
(* Model of the UPD_study training-loop controllers                        *)
(*   Models/CCD/CCD_trainer.py      train(), adjust_lr()                    *)
(*   test/models/AMCons/AMCtrainer.py  train()                              *)
(* and of the CheXpert partitioner                                         *)
(*   Dataloaders/CXR.py   get_files(), AnomalDataset, get_dataloaders()     *)
(***************************************************************************)
EXTENDS Integers, Sequences, FiniteSets, TLC

(***************************************************************************)
(* Bounds of the model                                                     *)
(***************************************************************************)
MaxSteps == 4      \* config.max_steps ranges over 1..MaxSteps
MaxEpochs == 3     \* config.max_epochs / config.epochs range over 0..MaxEpochs
MaxBatches == 2    \* len(train_dataloader) ranges over 1..MaxBatches
MaxFreq == 2       \* log / checkpoint / evaluation cadences range over 1..MaxFreq
MaxFiles == 3      \* a glob pattern matches 0..MaxFiles manifest files
MaxExtra == 3      \* longest manifest: Reserve + MaxExtra lines
MaxPixels == 3     \* pixels of an image handed to val_step

\* scalar loss values a forward pass may return (AMCons: in units of 0.1)
LossVals == {10, 20}

(***************************************************************************)
(* Program constants                                                       *)
(***************************************************************************)
\* config.lr, expressed in units of config.lr * 1e-6 (so that the floor
\* config.lr * 1e-3 is the integer 1000)
LrBase == 1000000
\* AMCtrainer.py: --wkl default 10, --wH default 0.1 (= 1 / WHDen)
Wkl == 10
WHDen == 10
\* CXR.py: the slice bound 200 of get_files (samples reserved per subgroup)
Reserve == 200
\* CXR.py: the cap 400 on the anomalous paths when both subgroups are used
AnomalCapBoth == 400
\* CXR.py: torch.manual_seed(42)
Seed == 42
\* number of states of the stand-in random generator
RngMod == 64

VARIABLES
    \* ---- training loop controller ----
    trainer,        \* which train() runs: "CCD" or "AMCons"
    config,         \* the parsed configuration the loop reads
    pc,             \* position of train(): "for_epoch", "for_batch", "done"
    epoch,          \* CCD: loop variable of `for epoch in range(...)`
    i,              \* index of the next batch of the current pass over the loader
    i_iter,         \* CCD: i_iter
    step,           \* AMCons: config.step
    i_epoch,        \* AMCons: i_epoch
    lr,             \* CCD: local lr of train()
    optimizer_lr,   \* param_group['lr'] of the optimizer
    train_losses,   \* defaultdict(list): component -> values
    emitted,        \* last log record printed / sent to the metric sink
    window,         \* history: loss dicts of the steps since the last log point
    saves,          \* history: step counts at which save_model was called
    evals,          \* history: step counts at which evaluate was called
    returned,       \* how train() returned: "no", "steps", "epochs"
    \* ---- partitioner ----
    data_config,    \* config.sex, config.normal_split, config.anomal_split
    normal_splits,  \* what glob finds for the normal pattern: manifest lengths
    anomal_splits,  \* what glob finds for the anomalous pattern: manifest lengths
    rng,            \* state of torch's default random generator
    train_out,      \* outcome of get_dataloaders(config, train=True)
    test_out,       \* outcome of get_dataloaders(config, train=False)
    train_prev,     \* history: outcome of the invocation before train_out's
    test_prev,      \* history: outcome of the invocation before test_out's
    \* ---- anomaly scorer ----
    val_config,     \* config.modality, config.dataset, config.get_images
    input,          \* the batch handed to val_step: one pixel list per image
    anomaly_map,    \* the interpolated map of each image, before masking
    val_out         \* outcome of val_step(input)

tvars == <<trainer, config, pc, epoch, i, i_iter, step, i_epoch, lr,
           optimizer_lr, train_losses, emitted, window, saves, evals, returned>>

dvars == <<data_config, normal_splits, anomal_splits, rng, train_out, test_out,
           train_prev, test_prev>>

vvars == <<val_config, input, anomaly_map, val_out>>

vars == <<tvars, dvars, vvars>>

(***************************************************************************)
(* Helpers                                                                 *)
(***************************************************************************)
RECURSIVE SumSeq(_)
SumSeq(s) == IF s = <<>> THEN 0 ELSE s[1] + SumSeq(Tail(s))

\* np.mean of a list, kept exact as the pair <<sum, count>>
np_mean(v) == <<SumSeq(v), Len(v)>>

\* the empty defaultdict(list)
EmptyLosses == [k \in {} |-> <<>>]

\* `for k, v in loss_dict.items(): train_losses[k].append(v.item())`
Accumulate(losses, d) ==
    [k \in (DOMAIN losses) \cup (DOMAIN d) |->
        IF k \in DOMAIN d
        THEN (IF k \in DOMAIN losses THEN losses[k] ELSE <<>>) \o <<d[k]>>
        ELSE losses[k]]

\* the record a log point emits: the mean of every accumulated component
LogRecord(n, losses) ==
    [at |-> n, means |-> [k \in DOMAIN losses |-> np_mean(losses[k])]]

NoLog == [at |-> 0, means |-> EmptyLosses]

ResetLosses_keep(losses) == losses

\* `train_losses = defaultdict(list)` at a log point
ResetLosses(losses) == EmptyLosses

\* cos(pi * k / 60) * 1000, rounded, for k in 0..30 (np.cos)
CosTable == <<1000, 999, 995, 988, 978, 966, 951, 934, 914, 891, 866,
              839, 809, 777, 743, 707, 669, 629, 588, 545, 500,
              454, 407, 358, 309, 259, 208, 156, 105, 52, 0>>

\* np.cos(np.pi * e / m) * 1000 for 0 <= e <= m, m a divisor of 60
CosMilli(e, m) ==
    LET k == (60 * e) \div m
    IN  IF k <= 30 THEN CosTable[k + 1] ELSE 0 - CosTable[(60 - k) + 1]

\* the value adjust_lr computes from the rate it is handed
CosineLr(rate, e, m) ==
    LET eta_min == rate \div 1000
    IN  eta_min + ((rate - eta_min) * (1000 + CosMilli(e, m))) \div 2000

\* adjust_lr(lr, optimizer, epoch, max_epochs): returns the new rate, which is
\* also stored in every param_group
adjust_lr(rate, e, m) == CosineLr(rate, e, m)

\* the argument train() hands to adjust_lr: its own local lr, which line 108
\* overwrites with the returned value every epoch
LrArgument == lr

(***************************************************************************)
(* Loss dictionaries returned by train_step                                *)
(***************************************************************************)
\* CCD train_step: {'loss_con'} when only_simclr, else the three components
CCDLossDicts(only_simclr) ==
    IF only_simclr
    THEN {[loss_con |-> con] : con \in LossVals}
    ELSE {[loss_cla |-> cla, loss_con |-> con, loss |-> con + cla] :
             con \in LossVals, cla \in LossVals}

\* AMCons train_step: loss = r_loss + wkl * kl_loss + wH * entropy_loss
AMCLossDicts ==
    {[loss |-> r + Wkl * kl + (e \div WHDen), rec_loss |-> r, kl_loss |-> kl,
      entropy_loss |-> e] : r \in LossVals, kl \in LossVals, e \in {10}}

(***************************************************************************)
(* The training variables while no training loop runs                      *)
(***************************************************************************)
IdleTrain ==
    /\ trainer = "none"
    /\ config = [max_steps |-> 1, max_epochs |-> 0, loader_len |-> 1,
                 log_frequency |-> 1, save_checkpoint |-> 1,
                 anom_val_frequency |-> 1, only_simclr |-> FALSE]
    /\ pc = "done"
    /\ epoch = 0 /\ i = 0 /\ i_iter = 0 /\ step = 0 /\ i_epoch = 0
    /\ lr = LrBase /\ optimizer_lr = LrBase
    /\ train_losses = EmptyLosses /\ emitted = NoLog
    /\ window = <<>> /\ saves = <<>> /\ evals = <<>>
    /\ returned = "no"

(***************************************************************************)
(* The scorer variables while val_step is not exercised                    *)
(***************************************************************************)
NoValOut == [status |-> "not_called", anomaly_map |-> <<>>,
             anomaly_score |-> <<>>, mins |-> <<>>]

IdleVal ==
    /\ val_config = [modality |-> "CXR", dataset |-> "other", get_images |-> FALSE]
    /\ input = <<>>
    /\ anomaly_map = <<>>
    /\ val_out = NoValOut

(***************************************************************************)
(* Dataloaders/CXR.py: lists, manifests, the random permutation            *)
(***************************************************************************)
Min(a, b) == IF a < b THEN a ELSE b

\* python slices s[:n] and s[n:] for n >= 0
Take(s, n) == SubSeq(s, 1, Min(n, Len(s)))
Drop(s, n) == SubSeq(s, Min(n, Len(s)) + 1, Len(s))

\* [v] * n
Repeat(v, n) == [j \in 1..n |-> v]

Elems(s) == {s[j] : j \in 1..Len(s)}

\* open(file[k]).read().splitlines(): line j of the k-th matched manifest of
\* a directory; the lines of the manifests are pairwise different paths
ReadLines(dir, k, len) == [j \in 1..len |-> <<dir, k, j>>]

\* os.path.join(config.datasets_dir, 'ChestXR', path), over a whole list
JoinAll(paths) == [j \in 1..Len(paths) |-> <<"ChestXR">> \o paths[j]]

\* "make sure even num of samples for both sexes" (lines 52-55, 97-100):
\* the pair of lists after the truncation
Balance(p1, p2) ==
    IF Len(p1) > Len(p2) THEN <<Take(p1, Len(p2)), p2>>
                         ELSE <<p1, Take(p2, Len(p1))>>

TrainTail_off_by_one(paths) == Drop(paths, Reserve - 1)

\* paths[200:], the part of a normal list that goes to training
TrainTail(paths) == Drop(paths, Reserve)

\* paths[:200], the part of a list reserved for the test set
TestHead(paths) == Take(paths, Reserve)

\* torch.manual_seed / the generator's transition: a small congruential
\* generator stands for torch's generator
NextRng(st) == (st * 5 + 3) % RngMod

\* torch.randperm(n) drawn in generator state st: a permutation of 1..n that
\* depends on the state (a rotation, reversed in odd states)
randperm(st, n) ==
    [j \in 1..n |->
        LET r == (j - 1 + st * 7 + 1) % n
        IN  IF st % 2 = 0 THEN r + 1 ELSE n - r]

\* list(np.array(files)[idx])
Shuffle(files, idx) == [j \in 1..Len(files) |-> files[idx[j]]]

SplitIdx_ceil(n, ratio) == (n * ratio[1] + ratio[2] - 1) \div ratio[2]

\* int(len(files) * ratio); a ratio is the pair <<numerator, denominator>>
SplitIdx(n, ratio) == (n * ratio[1]) \div ratio[2]

(***************************************************************************)
(* get_files(config, train)                                                *)
(***************************************************************************)
\* number of manifests the code reads for one pattern
Expected == IF data_config.sex = "both" THEN 2 ELSE 1

\* lines 28-71: the normal lists <<paths1, paths2>> after reading, balancing
\* and joining (paths2 is empty for a single subgroup); file[0] / file[1]
\* raise IndexError when glob returned too few names
NormalLists ==
    IF Len(normal_splits) < Expected
    THEN [err |-> "IndexError", p1 |-> <<>>, p2 |-> <<>>]
    ELSE IF data_config.sex = "both"
         THEN LET b == Balance(ReadLines("normal_splits", 1, normal_splits[1]),
                               ReadLines("normal_splits", 2, normal_splits[2]))
              IN  [err |-> "none", p1 |-> JoinAll(b[1]), p2 |-> JoinAll(b[2])]
         ELSE [err |-> "none",
               p1 |-> JoinAll(ReadLines("normal_splits", 1, normal_splits[1])),
               p2 |-> <<>>]

\* lines 75-105: the same for the anomalous manifests
AnomalLists ==
    IF Len(anomal_splits) < Expected
    THEN [err |-> "IndexError", p1 |-> <<>>, p2 |-> <<>>]
    ELSE IF data_config.sex = "both"
         THEN LET b == Balance(ReadLines("anomal_splits", 1, anomal_splits[1]),
                               ReadLines("anomal_splits", 2, anomal_splits[2]))
              IN  [err |-> "none", p1 |-> JoinAll(b[1]), p2 |-> JoinAll(b[2])]
         ELSE [err |-> "none",
               p1 |-> JoinAll(ReadLines("anomal_splits", 1, anomal_splits[1])),
               p2 |-> <<>>]

\* get_files(config, train=True): lines 62-63 and 70-71
get_files_train ==
    LET nl == NormalLists
    IN  IF nl.err # "none"
        THEN [err |-> nl.err, files |-> <<>>]
        ELSE [err |-> "none", files |-> TrainTail(nl.p1) \o TrainTail(nl.p2)]

\* get_files(config, train=False): lines 107-117
get_files_test ==
    LET nl == NormalLists
        al == AnomalLists
        no == [normal |-> <<>>, anomal |-> <<>>,
               labels_normal |-> <<>>, labels_anomal |-> <<>>]
    IN  IF nl.err # "none" THEN [err |-> nl.err] @@ no
        ELSE IF al.err # "none" THEN [err |-> al.err] @@ no
        ELSE IF data_config.sex = "both"
             THEN LET normal_paths == TestHead(nl.p1) \o TestHead(nl.p2)
                      anomal_paths == al.p1 \o al.p2
                  IN  [err |-> "none",
                       normal |-> normal_paths,
                       anomal |-> Take(anomal_paths, AnomalCapBoth),
                       labels_normal |-> Repeat(0, Len(normal_paths)),
                       labels_anomal |-> Repeat(1, AnomalCapBoth)]
             ELSE [err |-> "none",
                   normal |-> TestHead(nl.p1),
                   anomal |-> TestHead(al.p1),
                   labels_normal |-> Repeat(0, Reserve),
                   labels_anomal |-> Repeat(1, Reserve)]

(***************************************************************************)
(* AnomalDataset                                                           *)
(***************************************************************************)
\* __init__: images = normal_paths + anomal_paths, labels likewise
AnomalDataset(normal_paths, anomal_paths, labels_normal, labels_anomal) ==
    [images |-> normal_paths \o anomal_paths,
     labels |-> labels_normal \o labels_anomal]

\* __getitem__(idx): the mask that accompanies image idx (idx from 1)
GetItemMask(ds, idx) == IF ds.labels[idx] # 0 THEN "eye" ELSE "zeros"

NoDataset == [images |-> <<>>, labels |-> <<>>]

(***************************************************************************)
(* get_dataloaders(config, train)                                          *)
(***************************************************************************)
NoTrainOut ==
    [status |-> "not_called", trainfiles |-> <<>>, train |-> <<>>,
     val |-> <<>>, has_val |-> FALSE]

NoTestOut == [status |-> "not_called", big |-> NoDataset, small |-> NoDataset]

IdleData ==
    /\ data_config = [sex |-> "male", normal_split |-> <<1, 1>>,
                      anomal_split |-> <<1, 1>>]
    /\ normal_splits = <<>>
    /\ anomal_splits = <<>>
    /\ rng = Seed
    /\ train_out = NoTrainOut
    /\ test_out = NoTestOut
    /\ train_prev = NoTrainOut
    /\ test_prev = NoTestOut

\* sequences over S of length 0..n
RECURSIVE SeqsUpTo(_, _)
SeqsUpTo(S, n) ==
    IF n = 0 THEN {<<>>}
    ELSE LET shorter == SeqsUpTo(S, n - 1)
         IN  shorter \cup {Append(q, x) : q \in {t \in shorter : Len(t) = n - 1}, x \in S}

NormalLens == {Reserve - 1, Reserve + 1, Reserve + MaxExtra}
AnomalLens == {Reserve - 1, Reserve + 2}

\* what a glob call can return: up to MaxFiles manifests; the code reads at
\* most the first two, the further ones are as long as the second
Globs(lens) ==
    {q \in SeqsUpTo(lens, MaxFiles) : \A k \in 3..Len(q) : q[k] = q[2]}

\* the manifest lengths of the scenario of the design document
ScenarioLens == <<1000, 950>>

\* split ratios 0.5, 0.8 and 1.0 as <<numerator, denominator>> (their float
\* products with the list lengths used here truncate like the exact ones)
Half == <<1, 2>>
FourFifths == <<4, 5>>
Whole == <<1, 1>>

InitData ==
    /\ IdleTrain
    /\ \/ /\ data_config \in [sex : {"male", "both"},
                              normal_split : {FourFifths, Whole},
                              anomal_split : {Half, Whole}]
          /\ normal_splits \in Globs(NormalLens)
          /\ anomal_splits \in Globs(AnomalLens)
       \/ /\ data_config = [sex |-> "both", normal_split |-> FourFifths,
                            anomal_split |-> Half]
          /\ normal_splits = ScenarioLens
          /\ anomal_splits = <<Reserve + 2, Reserve + 2>>
    /\ rng = 0
    /\ train_out = NoTrainOut
    /\ test_out = NoTestOut
    /\ train_prev = NoTrainOut
    /\ test_prev = NoTestOut
    /\ IdleVal

\* whether the train branch builds a validation set (line 258)
HasVal(split_idx, n) == split_idx # n

manual_seed_skipped(st, seed) == st

\* torch.manual_seed(seed): the generator state after seeding, whatever the
\* state st left by earlier draws
manual_seed(st, seed) == seed

\* lines 245-273: get_dataloaders(config, train=True) entered in generator
\* state st; the outcome and the generator state it leaves
get_dataloaders_train(st) ==
    LET got == get_files_train
        seeded == manual_seed(st, Seed)
        idx == randperm(seeded, Len(got.files))
        trainfiles == Shuffle(got.files, idx)
        split_idx == SplitIdx(Len(trainfiles), data_config.normal_split)
    IN  IF got.err # "none"
        THEN <<[NoTrainOut EXCEPT !.status = got.err], st>>
        ELSE <<IF HasVal(split_idx, Len(trainfiles))
               THEN [status |-> "ok", trainfiles |-> trainfiles,
                     train |-> Take(trainfiles, split_idx),
                     val |-> Drop(trainfiles, split_idx),
                     has_val |-> TRUE]
               ELSE [status |-> "ok", trainfiles |-> trainfiles,
                     train |-> trainfiles, val |-> <<>>,
                     has_val |-> FALSE],
               NextRng(seeded)>>

\* lines 275-306: get_dataloaders(config, train=False) entered in generator
\* state st
get_dataloaders_test(st) ==
    LET got == get_files_test
        seeded == manual_seed(st, Seed)
        normal == Shuffle(got.normal, randperm(seeded, Len(got.normal)))
        anomal == Shuffle(got.anomal,
                          randperm(NextRng(seeded), Len(got.anomal)))
        split_idx == SplitIdx(Len(normal), data_config.anomal_split)
        split_idx_anomal == SplitIdx(Len(anomal), data_config.anomal_split)
    IN  IF got.err # "none"
        THEN <<[NoTestOut EXCEPT !.status = got.err], st>>
        ELSE <<[status |-> "ok",
                big |-> AnomalDataset(Take(normal, split_idx),
                                      Take(anomal, split_idx_anomal),
                                      Take(got.labels_normal, split_idx),
                                      Take(got.labels_anomal, split_idx_anomal)),
                small |-> AnomalDataset(Drop(normal, split_idx),
                                        Drop(anomal, split_idx_anomal),
                                        Drop(got.labels_normal, split_idx),
                                        Drop(got.labels_anomal, split_idx_anomal))],
               NextRng(NextRng(seeded))>>

\* the first invocation of get_dataloaders(config, train=True)
GetDataloadersTrain ==
    /\ trainer = "none"
    /\ train_out.status = "not_called"
    /\ LET got == get_dataloaders_train(rng)
       IN  train_out' = got[1] /\ rng' = got[2]
    /\ UNCHANGED <<data_config, normal_splits, anomal_splits, test_out,
                   train_prev, test_prev>>
    /\ UNCHANGED <<tvars, vvars>>

\* the first invocation of get_dataloaders(config, train=False)
GetDataloadersTest ==
    /\ trainer = "none"
    /\ test_out.status = "not_called"
    /\ LET got == get_dataloaders_test(rng)
       IN  test_out' = got[1] /\ rng' = got[2]
    /\ UNCHANGED <<data_config, normal_splits, anomal_splits, train_out,
                   train_prev, test_prev>>
    /\ UNCHANGED <<tvars, vvars>>

\* a second invocation with the same manifests and configuration, in the
\* generator state the earlier calls left
GetDataloadersTrainAgain ==
    /\ trainer = "none"
    /\ train_out.status # "not_called"
    /\ train_prev.status = "not_called"
    /\ train_prev' = train_out
    /\ LET got == get_dataloaders_train(rng)
       IN  train_out' = got[1] /\ rng' = got[2]
    /\ UNCHANGED <<data_config, normal_splits, anomal_splits, test_out, test_prev>>
    /\ UNCHANGED <<tvars, vvars>>

GetDataloadersTestAgain ==
    /\ trainer = "none"
    /\ test_out.status # "not_called"
    /\ test_prev.status = "not_called"
    /\ test_prev' = test_out
    /\ LET got == get_dataloaders_test(rng)
       IN  test_out' = got[1] /\ rng' = got[2]
    /\ UNCHANGED <<data_config, normal_splits, anomal_splits, train_out, train_prev>>
    /\ UNCHANGED <<tvars, vvars>>

NextData ==
    \/ GetDataloadersTrain
    \/ GetDataloadersTest

SpecData == InitData /\ [][NextData]_vars

\* repeated invocations, over the manifests the code reads (at most two per
\* pattern)
InitRepeat ==
    /\ InitData
    /\ Len(normal_splits) <= 2 /\ Len(anomal_splits) <= 2
    /\ normal_splits # ScenarioLens

NextRepeat ==
    \/ GetDataloadersTrain
    \/ GetDataloadersTest
    \/ GetDataloadersTrainAgain
    \/ GetDataloadersTestAgain

SpecRepeat == InitRepeat /\ [][NextRepeat]_vars

(***************************************************************************)
(* Initial state of a training run                                         *)
(***************************************************************************)
TrainConfigs ==
    [max_steps : 1..MaxSteps, max_epochs : 0..MaxEpochs,
     loader_len : 1..MaxBatches, log_frequency : 1..MaxFreq,
     save_checkpoint : 1..MaxFreq, anom_val_frequency : 1..MaxFreq,
     only_simclr : BOOLEAN]

InitTrain ==
    /\ trainer \in {"CCD", "AMCons"}
    /\ config \in TrainConfigs
    \* options the other trainer does not read are pinned
    /\ trainer = "CCD" => config.anom_val_frequency = 1
    /\ trainer = "AMCons" => config.only_simclr = FALSE
    /\ pc = IF trainer = "CCD" THEN "for_epoch" ELSE "for_batch"
    /\ epoch = 0
    /\ i = 0
    /\ i_iter = 0
    /\ step = 0
    /\ i_epoch = 0
    /\ lr = LrBase
    /\ optimizer_lr = LrBase
    /\ train_losses = EmptyLosses
    /\ emitted = NoLog
    /\ window = <<>>
    /\ saves = <<>>
    /\ evals = <<>>
    /\ returned = "no"
    /\ IdleData
    /\ IdleVal

(***************************************************************************)
(* CCD_trainer.py train()                                                  *)
(***************************************************************************)
\* save_model(...): the write is recorded with the step count and the call
\* site ("periodic": inside the cadence test, "final": on a path that returns)
save_model(log, n, site) == Append(log, [at |-> n, site |-> site])

CCDPeriodicSave_never(n) == FALSE

\* line 132: whether the loop body writes the periodic checkpoint after step n
CCDPeriodicSave(n) == n % config.save_checkpoint = 0

CCDFinalSave_skip(log) == log

\* line 141: save_model on the path that leaves the epoch loop
CCDFinalSave(log) == save_model(log, i_iter, "final")

\* line 105-108: enter the next epoch, recompute the learning rate
CCD_EpochStart ==
    /\ trainer = "CCD" /\ pc = "for_epoch"
    /\ epoch < config.max_epochs
    /\ lr' = adjust_lr(LrArgument, epoch, config.max_epochs)
    /\ optimizer_lr' = lr'
    /\ i' = 0
    /\ pc' = "for_batch"
    /\ UNCHANGED <<trainer, config, epoch, i_iter, step, i_epoch, train_losses,
                   emitted, window, saves, evals, returned>>
    /\ UNCHANGED <<dvars, vvars>>

\* lines 110-138: one pass through the body of the batch loop
CCD_Step ==
    /\ trainer = "CCD" /\ pc = "for_batch"
    /\ i < config.loader_len
    /\ \E d \in CCDLossDicts(config.only_simclr) :
        LET n     == i_iter + 1
            acc   == Accumulate(train_losses, d)
            logs  == n % config.log_frequency = 0
            s1    == IF CCDPeriodicSave(n) THEN save_model(saves, n, "periodic") ELSE saves
            stop  == n % config.max_steps = 0
        IN  /\ i_iter' = n
            /\ window' = IF i_iter % config.log_frequency = 0
                         THEN <<d>> ELSE Append(window, d)
            /\ emitted' = IF logs THEN LogRecord(n, acc) ELSE emitted
            /\ train_losses' = IF logs THEN ResetLosses(acc) ELSE acc
            /\ saves' = IF stop THEN save_model(s1, n, "final") ELSE s1
            /\ pc' = IF stop THEN "done" ELSE "for_batch"
            /\ returned' = IF stop THEN "steps" ELSE "no"
            /\ i' = i + 1
    /\ UNCHANGED <<trainer, config, epoch, step, i_epoch, lr, optimizer_lr, evals>>
    /\ UNCHANGED <<dvars, vvars>>

\* the loader is exhausted: the epoch loop advances
CCD_EpochEnd ==
    /\ trainer = "CCD" /\ pc = "for_batch"
    /\ i >= config.loader_len
    /\ epoch' = epoch + 1
    /\ pc' = "for_epoch"
    /\ UNCHANGED <<trainer, config, i, i_iter, step, i_epoch, lr, optimizer_lr,
                   train_losses, emitted, window, saves, evals, returned>>
    /\ UNCHANGED <<dvars, vvars>>

\* lines 140-141: range(start_epoch, max_epochs) is exhausted
CCD_Finish ==
    /\ trainer = "CCD" /\ pc = "for_epoch"
    /\ epoch >= config.max_epochs
    /\ saves' = CCDFinalSave(saves)
    /\ pc' = "done"
    /\ returned' = "epochs"
    /\ UNCHANGED <<trainer, config, epoch, i, i_iter, step, i_epoch, lr,
                   optimizer_lr, train_losses, emitted, window, evals>>
    /\ UNCHANGED <<dvars, vvars>>

(***************************************************************************)
(* AMCtrainer.py train()                                                   *)
(***************************************************************************)
\* lines 167-207: one pass through the body of `for input in train_loader`
AMC_Step ==
    /\ trainer = "AMCons" /\ pc = "for_batch"
    /\ i < config.loader_len
    /\ \E d \in AMCLossDicts :
        LET n     == step + 1
            acc   == Accumulate(train_losses, d)
            logs  == n % config.log_frequency = 0
            stop  == n >= config.max_steps
        IN  /\ step' = n
            /\ window' = IF step % config.log_frequency = 0
                         THEN <<d>> ELSE Append(window, d)
            /\ emitted' = IF logs THEN LogRecord(n, acc) ELSE emitted
            /\ train_losses' = IF logs THEN ResetLosses(acc) ELSE acc
            /\ evals' = IF n % config.anom_val_frequency = 0
                        THEN Append(evals, n) ELSE evals
            \* the periodic save_model of lines 200-202 is commented out
            /\ saves' = IF stop THEN save_model(saves, n, "final") ELSE saves
            /\ pc' = IF stop THEN "done" ELSE "for_batch"
            /\ returned' = IF stop THEN "steps" ELSE "no"
            /\ i' = i + 1
    /\ UNCHANGED <<trainer, config, epoch, i_iter, i_epoch, lr, optimizer_lr>>
    /\ UNCHANGED <<dvars, vvars>>

\* line 209: the loader is exhausted, `while True` starts the next pass
AMC_EpochEnd ==
    /\ trainer = "AMCons" /\ pc = "for_batch"
    /\ i >= config.loader_len
    /\ i_epoch' = i_epoch + 1
    /\ i' = 0
    /\ UNCHANGED <<trainer, config, pc, epoch, i_iter, step, lr, optimizer_lr,
                   train_losses, emitted, window, saves, evals, returned>>
    /\ UNCHANGED <<dvars, vvars>>

NextTrain ==
    \/ CCD_EpochStart
    \/ CCD_Step
    \/ CCD_EpochEnd
    \/ CCD_Finish
    \/ AMC_Step
    \/ AMC_EpochEnd

SpecTrain == InitTrain /\ [][NextTrain]_vars

(***************************************************************************)
(* AMCtrainer.py val_step(): anomaly map and anomaly score                  *)
(* An image and its map are lists of pixel values (one channel, flattened). *)
(***************************************************************************)
SetMin(S) == CHOOSE x \in S : \A y \in S : x <= y
SetMax(S) == CHOOSE x \in S : \A y \in S : x >= y

\* tensor.min() of a non-empty pixel list
PixMin(t) == SetMin(Elems(t))

\* `inp > inp.min()`: the pixels of the brain mask
Foreground(inp) == {p \in 1..Len(inp) : inp[p] > PixMin(inp)}

\* `anomaly_map *= mask` for one image
MulMask(map, inp) == [p \in 1..Len(map) |-> IF p \in Foreground(inp) THEN map[p] ELSE 0]

\* line 234: `map[map > map.min()]`, the values the rebasing minimum is taken of
AboveMin(map) == {map[p] : p \in {q \in 1..Len(map) : map[q] > PixMin(map)}}

\* line 237: `map - min`
Rebase(map, min) == [p \in 1..Len(map) |-> map[p] - min]

ScorePolicy_ignores_dataset(cfg) ==
    IF cfg.modality \in {"MRI", "CT"} THEN "foreground_max"
    ELSE IF cfg.modality \in {"RF"} THEN "max"
    ELSE "mean"

\* lines 229, 242, 244: which aggregation val_step applies
ScorePolicy(cfg) ==
    IF cfg.modality \in {"MRI", "CT"} THEN "foreground_max"
    ELSE IF cfg.modality \in {"RF"} /\ cfg.dataset = "DDR" THEN "max"
    ELSE "mean"

\* line 240: `map[inp > inp.min()]`
ForegroundValues(map, inp) == {map[p] : p \in Foreground(inp)}

\* a score is kept exact as the pair <<numerator, denominator>>
AsScore(v) == <<v, 1>>

\* val_step for one image and its map: .min() / .max() of an empty selection
\* raise RuntimeError
ValStepImage(cfg, inp, map) ==
    LET policy == ScorePolicy(cfg)
        masked == MulMask(map, inp)
        sel == AboveMin(masked)
        rebased == IF cfg.get_images
                   THEN MulMask(Rebase(masked, SetMin(sel)), inp)
                   ELSE masked
        fg == ForegroundValues(rebased, inp)
    IN  IF policy = "foreground_max"
        THEN IF cfg.get_images /\ sel = {}
             THEN [err |-> "RuntimeError", map |-> map, score |-> <<>>, min |-> <<>>]
             ELSE IF fg = {}
             THEN [err |-> "RuntimeError", map |-> rebased, score |-> <<>>, min |-> <<>>]
             ELSE [err |-> "none", map |-> rebased, score |-> AsScore(SetMax(fg)),
                   min |-> IF cfg.get_images THEN <<SetMin(sel)>> ELSE <<>>]
        ELSE IF policy = "max"
        THEN [err |-> "none", map |-> map, score |-> AsScore(SetMax(Elems(map))),
              min |-> <<>>]
        ELSE [err |-> "none", map |-> map, score |-> np_mean(map), min |-> <<>>]

\* pixel intensities and map values (map values in units of 0.1)
InputVals == {0, 1}
MapVals == {-1, 0, 1, 9}

Images(vals) == [1..MaxPixels -> vals]

\* the two-image batches: images with and without foreground, maps with
\* positive and with non-positive values
CornerInputs == {[p \in 1..MaxPixels |-> IF p = 1 THEN 0 ELSE 1],
                 [p \in 1..MaxPixels |-> IF p = MaxPixels THEN 1 ELSE 0]}
CornerMaps == {[p \in 1..MaxPixels |-> IF p = 1 THEN 1 ELSE 9],
               [p \in 1..MaxPixels |-> IF p = MaxPixels THEN -1 ELSE 0]}

InitVal ==
    /\ IdleTrain
    /\ IdleData
    /\ val_config \in [modality : {"MRI", "CT", "RF", "CXR"},
                       dataset : {"DDR", "other"}, get_images : BOOLEAN]
    /\ \/ \E inp \in Images(InputVals), map \in Images(MapVals) :
            input = <<inp>> /\ anomaly_map = <<map>>
       \/ \E i1 \in CornerInputs, i2 \in CornerInputs,
             m1 \in CornerMaps, m2 \in CornerMaps :
            input = <<i1, i2>> /\ anomaly_map = <<m1, m2>>
    /\ val_out = NoValOut

\* lines 228-247: the scoring part of val_step, over the whole batch
ValStep ==
    /\ val_out.status = "not_called"
    /\ input # <<>>
    /\ LET res == [b \in 1..Len(input) |->
                      ValStepImage(val_config, input[b], anomaly_map[b])]
       IN  IF \E b \in 1..Len(input) : res[b].err # "none"
           THEN val_out' = [NoValOut EXCEPT !.status = "RuntimeError"]
           ELSE val_out' = [status |-> "ok",
                            anomaly_map |-> [b \in 1..Len(input) |-> res[b].map],
                            anomaly_score |-> [b \in 1..Len(input) |-> res[b].score],
                            mins |-> [b \in 1..Len(input) |-> res[b].min]]
    /\ UNCHANGED <<val_config, input, anomaly_map>>
    /\ UNCHANGED <<tvars, dvars>>

NextVal == ValStep

SpecVal == InitVal /\ [][NextVal]_vars

(***************************************************************************)
(* Quantities the properties speak about                                   *)
(***************************************************************************)
StepCount == IF trainer = "CCD" THEN i_iter ELSE step
EpochCount == IF trainer = "CCD" THEN epoch ELSE i_epoch
Count(k) == IF k \in DOMAIN train_losses THEN Len(train_losses[k]) ELSE 0
Components ==
    IF trainer = "CCD"
    THEN (IF config.only_simclr THEN {"loss_con"} ELSE {"loss_cla", "loss_con", "loss"})
    ELSE {"loss", "rec_loss", "kl_loss", "entropy_loss"}

BudgetReached ==
    \/ StepCount >= config.max_steps
    \/ EpochCount >= config.max_epochs

\* the checkpoint writes of one call site
Writes(site) == {j \in 1..Len(saves) : saves[j].site = site}
WritesAt(n, site) == {j \in Writes(site) : saves[j].at = n}

\* the mean of component k over the steps since the last log point
WindowMean(k) == np_mean([j \in 1..Len(window) |-> window[j][k]])

(***************************************************************************)
(* C1: in each training loop, once the step count has reached max_steps or *)
(* the epoch count has reached the epoch budget, no further training step  *)
(* is executed and the run terminates.                                     *)
(* Fails for AMCons: train() never compares i_epoch with config.epochs.    *)
(***************************************************************************)
C1_TerminatesAtFirstBudget ==
    [][BudgetReached => (StepCount' = StepCount /\ pc' = "done")]_vars

(***************************************************************************)
(* C2: whenever train() has returned (by the step budget or by the epoch   *)
(* budget), the last checkpoint write is the one of a returning path and   *)
(* it was made after the last training step.                               *)
(***************************************************************************)
C2_FinalCheckpoint ==
    returned # "no" =>
        /\ pc = "done"
        /\ saves # <<>>
        /\ saves[Len(saves)] = [at |-> StepCount, site |-> "final"]
        /\ Cardinality(Writes("final")) = 1

C2_Witness ==
    /\ trainer = "CCD" /\ returned = "epochs"
    /\ i_iter >= 2
    /\ i_iter % config.save_checkpoint # 0

(***************************************************************************)
(* C6: while the CCD loop is inside epoch e, the optimizer's learning rate *)
(* is the cosine-annealed value between config.lr and config.lr * 1e-3 at  *)
(* e / max_epochs; it is never below the floor and equals the floor only   *)
(* at e = max_epochs.                                                      *)
(* Fails: train() feeds the previous epoch's rate back into adjust_lr.     *)
(***************************************************************************)
C6_CosineRate ==
    (trainer = "CCD" /\ pc = "for_batch") =>
        /\ optimizer_lr = CosineLr(LrBase, epoch, config.max_epochs)
        /\ optimizer_lr >= LrBase \div 1000
        /\ optimizer_lr = LrBase \div 1000 => epoch = config.max_epochs

(***************************************************************************)
(* C7: after any step the accumulator holds (step count mod N) values of   *)
(* every loss component, a log record exists for exactly the last multiple *)
(* of N, and that record carries, per component, the mean of the values    *)
(* appended since the previous log point.                                  *)
(***************************************************************************)
C7_WindowedLogging ==
    LET N == config.log_frequency
    IN  /\ DOMAIN train_losses \subseteq Components
        /\ \A k \in Components : Count(k) = StepCount % N
        /\ emitted.at = StepCount - (StepCount % N)
        /\ (StepCount > 0 /\ StepCount % N = 0) =>
              /\ Len(window) = N
              /\ emitted.means = [k \in Components |-> WindowMean(k)]

C7_Witness ==
    /\ config.log_frequency > 1
    /\ StepCount = 2 * config.log_frequency
    /\ emitted.at = StepCount
    /\ window[1] # window[2]

(***************************************************************************)
(* C8 (as claimed): in each training loop every step whose count is a      *)
(* multiple of save_checkpoint is followed by a checkpoint write, besides  *)
(* the write at termination.                                               *)
(* Fails for AMCons, whose periodic save_model is commented out.           *)
(***************************************************************************)
C8_CadenceInEachLoop ==
    /\ \A n \in 1..StepCount :
          n % config.save_checkpoint = 0 => WritesAt(n, "periodic") # {}
    /\ returned # "no" => Writes("final") # {}

(***************************************************************************)
(* C8 (amended): the CCD loop writes a checkpoint at exactly the steps     *)
(* whose count is a multiple of save_checkpoint, and one more when it      *)
(* terminates; the AMCons loop writes only the one at termination.         *)
(***************************************************************************)
C8_CadenceCCD ==
    /\ trainer = "CCD" =>
          \A n \in 1..StepCount :
              Cardinality(WritesAt(n, "periodic")) =
                  IF n % config.save_checkpoint = 0 THEN 1 ELSE 0
    /\ trainer = "AMCons" => Writes("periodic") = {}
    /\ Cardinality(Writes("final")) = IF returned # "no" THEN 1 ELSE 0

C8_Witness ==
    /\ trainer = "CCD" /\ returned = "steps"
    /\ config.save_checkpoint > 1
    /\ config.max_steps > config.save_checkpoint
    /\ Cardinality(Writes("periodic")) >= 1

(***************************************************************************)
(* Quantities the partition properties speak about                         *)
(***************************************************************************)
TrainCalled == train_out.status # "not_called"
TestCalled == test_out.status # "not_called"
TrainOk == train_out.status = "ok"
TestOk == test_out.status = "ok"

\* the paths handed to model fitting, and the paths of the two test groups
TrainValPaths == Elems(train_out.train) \cup Elems(train_out.val)
TestPaths == Elems(test_out.big.images) \cup Elems(test_out.small.images)

\* a joined path that was read from a normal manifest
FromNormal(path) == path[2] = "normal_splits"

\* a pattern that matched no manifest, or more than the code expects
Ambiguous(matches) == Len(matches) = 0 \/ Len(matches) > Expected

(***************************************************************************)
(* C3: for a single subgroup and for both, no path of the normal train or  *)
(* validation partition appears in the primary or secondary test group.    *)
(***************************************************************************)
C3_TrainTestDisjoint ==
    (TrainOk /\ TestOk) => TrainValPaths \cap TestPaths = {}

C3_Witness ==
    /\ TrainOk /\ TestOk
    /\ data_config.sex = "both"
    /\ Len(normal_splits) > 2
    /\ train_out.train # <<>> /\ train_out.val # <<>>
    /\ test_out.big.images # <<>> /\ test_out.small.images # <<>>

(***************************************************************************)
(* C4: with both subgroups the two normal lists have the same length L     *)
(* after balancing, and train plus validation hold exactly 2 * (L - 200)   *)
(* paths.                                                                  *)
(* Fails when L < 200: get_files returns an empty pool instead of raising  *)
(* InsufficientSamplesError.                                               *)
(***************************************************************************)
C4_BalancedTrainCount ==
    (TrainOk /\ data_config.sex = "both") =>
        LET L == Min(normal_splits[1], normal_splits[2])
        IN  /\ Len(NormalLists.p1) = L
            /\ Len(NormalLists.p2) = L
            /\ Len(train_out.train) + Len(train_out.val) = 2 * (L - Reserve)

(***************************************************************************)
(* C5: in the primary and in the secondary test group the label list is as *)
(* long as the path list, every path from a normal manifest has label 0    *)
(* and an all-zero mask, every path from an anomalous manifest has label 1 *)
(* and the diagonal mask.                                                  *)
(* Fails for manifests shorter than the hard-coded label counts.           *)
(***************************************************************************)
C5_LabelsAligned ==
    TestOk =>
        \A ds \in {test_out.big, test_out.small} :
            /\ Len(ds.labels) = Len(ds.images)
            /\ \A idx \in 1..Len(ds.images) :
                 IF FromNormal(ds.images[idx])
                 THEN ds.labels[idx] = 0 /\ GetItemMask(ds, idx) = "zeros"
                 ELSE ds.labels[idx] = 1 /\ GetItemMask(ds, idx) = "eye"

(***************************************************************************)
(* C9: the train partition is the first int(normal_split * N) entries of   *)
(* the permuted pool of N paths, the validation partition is the rest;     *)
(* both are disjoint and together are the pool; the validation partition   *)
(* is omitted exactly when int(normal_split * N) = N. Manifest lengths     *)
(* [1000, 950] with normal_split 0.8: pool 1500, train 1200, val 300.      *)
(***************************************************************************)
C9_TrainValSplit ==
    TrainOk =>
        LET pool == train_out.trainfiles
            N == Len(pool)
            ratio == data_config.normal_split
            k == (N * ratio[1]) \div ratio[2]
        IN  /\ Elems(pool) = Elems(get_files_train.files)
            /\ Cardinality(Elems(pool)) = N
            /\ train_out.train = SubSeq(pool, 1, k)
            /\ train_out.val = SubSeq(pool, k + 1, N)
            /\ train_out.train \o train_out.val = pool
            /\ Elems(train_out.train) \cap Elems(train_out.val) = {}
            /\ train_out.has_val <=> k # N
            /\ (normal_splits = ScenarioLens /\ data_config.sex = "both"
                   /\ ratio = FourFifths) =>
                 (N = 1500 /\ Len(train_out.train) = 1200
                           /\ Len(train_out.val) = 300)

C9_Witness ==
    /\ TrainOk
    /\ normal_splits = ScenarioLens
    /\ train_out.has_val
    /\ Len(train_out.train) = 1200 /\ Len(train_out.val) = 300

(***************************************************************************)
(* C10: get_files fails with ManifestNotFoundError whenever a pattern      *)
(* matches no manifest or more manifests than expected.                    *)
(* Fails: no match raises IndexError, extra matches are silently ignored.  *)
(***************************************************************************)
C10_ManifestNotFound ==
    /\ (TrainCalled /\ Ambiguous(normal_splits)) =>
           train_out.status = "ManifestNotFoundError"
    /\ (TestCalled /\ (Ambiguous(normal_splits) \/ Ambiguous(anomal_splits))) =>
           test_out.status = "ManifestNotFoundError"

\* the manifests get_files reads for a pattern, once enough of them matched
Readable(matches) == Len(matches) >= Expected
Short(matches) == \E k \in 1..Expected : matches[k] < Reserve

(***************************************************************************)
(* C11: get_files fails with InsufficientSamplesError whenever a manifest  *)
(* it reads has fewer than the 200 lines reserved for the test partition;  *)
(* it returns neither a shorter test partition nor an empty train pool.    *)
(* Fails: the slices [:200] and [200:] are taken without any check.        *)
(***************************************************************************)
C11_InsufficientSamples ==
    /\ (TrainCalled /\ Readable(normal_splits) /\ Short(normal_splits)) =>
           train_out.status = "InsufficientSamplesError"
    /\ (TestCalled /\ Readable(normal_splits) /\ Readable(anomal_splits)
           /\ (Short(normal_splits) \/ Short(anomal_splits))) =>
           test_out.status = "InsufficientSamplesError"

(***************************************************************************)
(* Quantities the scoring properties speak about                           *)
(***************************************************************************)
ValOk == val_out.status = "ok"
Masked == val_config.modality \in {"MRI", "CT"}

\* v is the largest / smallest of the values map takes on the pixels in ps
IsMaxOn(v, map, ps) ==
    /\ \E p \in ps : map[p] = v
    /\ \A p \in ps : map[p] <= v
IsMinOn(v, map, ps) ==
    /\ \E p \in ps : map[p] = v
    /\ \A p \in ps : map[p] >= v

AllPixels(map) == 1..Len(map)
ForegroundPixels(inp) ==
    {p \in 1..Len(inp) : \E q \in 1..Len(inp) : inp[q] < inp[p]}

(***************************************************************************)
(* C12: whenever val_step returns, the score of every image is: for MRI    *)
(* and CT the maximum of the returned map over the foreground pixels (the  *)
(* pixels whose input value is above the image minimum), and without       *)
(* rebasing that is the maximum of the interpolated map over them; for RF  *)
(* with dataset DDR the maximum over all pixels; otherwise the mean over   *)
(* all pixels. Foreground values 0.1 and 0.9 give the score 0.9.           *)
(***************************************************************************)
C12_ScoreDispatch ==
    ValOk =>
        \A b \in 1..Len(input) :
            LET sc == val_out.anomaly_score[b]
                out == val_out.anomaly_map[b]
                fg == ForegroundPixels(input[b])
            IN  IF Masked
                THEN /\ sc[2] = 1
                     /\ IsMaxOn(sc[1], out, fg)
                     /\ ~val_config.get_images => IsMaxOn(sc[1], anomaly_map[b], fg)
                ELSE IF val_config.modality = "RF" /\ val_config.dataset = "DDR"
                THEN /\ sc[2] = 1
                     /\ IsMaxOn(sc[1], anomaly_map[b], AllPixels(anomaly_map[b]))
                ELSE /\ sc[2] = Len(anomaly_map[b])
                     /\ sc[1] = SumSeq(anomaly_map[b])

C12_Witness ==
    /\ ValOk
    /\ val_config.modality = "MRI" /\ ~val_config.get_images
    /\ Len(input) = 1
    /\ {anomaly_map[1][p] : p \in ForegroundPixels(input[1])} = {1, 9}
    /\ \E p \in AllPixels(input[1]) : p \notin ForegroundPixels(input[1])
    /\ val_out.anomaly_score[1] = <<9, 1>>

(***************************************************************************)
(* C14: for MRI / CT with rebasing enabled, the value subtracted from each *)
(* image's map is the minimum of that map over the image's foreground, so  *)
(* that the foreground minimum of the returned map is 0.                   *)
(* Fails: the code subtracts the smallest value above the minimum of the   *)
(* masked map, which is the foreground minimum only while all foreground   *)
(* values are positive.                                                    *)
(***************************************************************************)
C14_RebaseForegroundMin ==
    (ValOk /\ Masked /\ val_config.get_images) =>
        \A b \in 1..Len(input) :
            LET fg == ForegroundPixels(input[b])
            IN  /\ Len(val_out.mins[b]) = 1
                /\ IsMinOn(val_out.mins[b][1], anomaly_map[b], fg)
                /\ IsMinOn(0, val_out.anomaly_map[b], fg)

(***************************************************************************)
(* C13: a second invocation of get_dataloaders with the same manifests and *)
(* configuration returns the same ordered train, validation, primary and   *)
(* secondary test partitions (and labels) as the first, whatever state the *)
(* earlier calls left in the random generator.                            *)
(***************************************************************************)
C13_Deterministic ==
    /\ train_prev.status # "not_called" => train_out = train_prev
    /\ test_prev.status # "not_called" => test_out = test_prev

C13_Witness ==
    /\ train_prev.status = "ok" /\ test_prev.status = "ok"
    /\ data_config.sex = "both"
    /\ Len(train_out.train) >= 2 /\ train_out.has_val
    /\ test_out.small.images # <<>>
    /\ rng # 0

====
